---- MODULE Spec2Model ----
(***************************************************************************)
(* regex-permissions: the hook that decides deny / ask / allow /           *)
(* passthrough for a tool invocation from regex rules.                     *)
(*                                                                         *)
(* Text is modelled as a sequence of one-character strings, so that the    *)
(* code's string operations (split, trim, match, concatenation into a      *)
(* cache key) are computed character by character.  The host regular       *)
(* expression engine is modelled for the pattern syntax the rules of the   *)
(* model use: literals, ".", "^", "$", "\x" escapes, groups "(...)" and    *)
(* "(?:...)", alternation "|" and the greedy quantifiers "+" and "*",      *)
(* under the flags g, i, m, s and y.                                       *)
(***************************************************************************)
EXTENDS Integers, Sequences, FiniteSets, TLC

\* JavaScript undefined / null, for a value that is otherwise a text (None), a
\* record or object (Null) or a reason string (NoReason)
None == <<"<undefined>">>
Null == [null |-> TRUE]
NoReason == "<undefined>"

\* a JSON value of another type where a string is expected: the number 42 (truthy, no string methods)
NotAString == <<"<number>">>

\* what stands for a result when the call threw a TypeError instead of returning
Threw == [threw |-> TRUE]

\* const v = value; Rest is what the function goes on to do with v
Bind(v, Rest(_)) == Rest(v)

(***************************************************************************)
(* Characters and text                                                     *)
(***************************************************************************)
NL == "\n"
BS == "\\"

Upper == <<"A","B","C","D","E","F","G","H","I","J","K","L","M",
           "N","O","P","Q","R","S","T","U","V","W","X","Y","Z">>
Lower == <<"a","b","c","d","e","f","g","h","i","j","k","l","m",
           "n","o","p","q","r","s","t","u","v","w","x","y","z">>

\* Canonicalize of the engine under the i flag (ASCII letters fold together)
Canonicalize(c) ==
  IF \E k \in 1..26 : Upper[k] = c
  THEN Lower[CHOOSE k \in 1..26 : Upper[k] = c]
  ELSE c

IsSpace(c) == c \in {" ", "\t", "\n", "\r", "\f"}
IsDigit(c) == c \in {"0","1","2","3","4","5","6","7","8","9"}

Has(t, c) == \E k \in 1..Len(t) : t[k] = c

\* String.prototype.indexOf for one character, as a 1-based index (0: absent)
IndexOf(t, c) == IF Has(t, c) THEN CHOOSE k \in 1..Len(t) : t[k] = c /\ \A j \in 1..(k-1) : t[j] # c ELSE 0

RECURSIVE Uniq(_, _)
Uniq(xs, acc) ==
  IF xs = <<>> THEN acc
  ELSE Uniq(Tail(xs), IF \E k \in 1..Len(acc) : acc[k] = Head(xs) THEN acc ELSE Append(acc, Head(xs)))

(***************************************************************************)
(* The regular expression engine (new RegExp(pattern, flags), re.test(s))  *)
(***************************************************************************)

\* index of the ")" that closes a group, scanning from j at nesting depth d; 0 when unterminated
RECURSIVE GroupEnd(_, _, _)
GroupEnd(p, j, d) ==
  IF j > Len(p) THEN 0
  ELSE IF p[j] = BS THEN GroupEnd(p, j + 2, d)
  ELSE IF p[j] = "(" THEN GroupEnd(p, j + 1, d + 1)
  ELSE IF p[j] = ")" THEN (IF d = 1 THEN j ELSE GroupEnd(p, j + 1, d - 1))
  ELSE GroupEnd(p, j + 1, d)

\* last index of the atom that starts at lo
AtomEnd(p, lo) ==
  IF p[lo] = BS THEN lo + 1
  ELSE IF p[lo] = "(" THEN GroupEnd(p, lo + 1, 1)
  ELSE lo

\* first index of the body of the group that opens at lo ("(?:" is a non-capturing group)
GroupBodyStart(p, lo) ==
  IF lo + 2 <= Len(p) /\ p[lo + 1] = "?" /\ p[lo + 2] = ":" THEN lo + 3 ELSE lo + 1

\* index of the first "|" of p[lo..hi] outside any group, 0 when there is none
RECURSIVE FirstBar(_, _, _)
FirstBar(p, lo, hi) ==
  IF lo > hi THEN 0
  ELSE IF p[lo] = "|" THEN lo
  ELSE FirstBar(p, AtomEnd(p, lo) + 1, hi)

\* the pattern p[j..hi] parses; canQuant: the previous term can take a quantifier
RECURSIVE ValidPattern(_, _, _, _)
ValidPattern(p, j, hi, canQuant) ==
  IF j > hi THEN TRUE
  ELSE LET c == p[j] IN
    CASE c = "|" -> ValidPattern(p, j + 1, hi, FALSE)
      [] c \in {"+", "*"} -> canQuant /\ ValidPattern(p, j + 1, hi, FALSE)
      [] c \in {"^", "$"} -> ValidPattern(p, j + 1, hi, FALSE)
      [] c = ")" -> FALSE
      [] c = "?" -> FALSE
      [] c = BS -> j + 1 <= hi /\ ValidPattern(p, j + 2, hi, TRUE)
      [] c = "(" ->
           LET e == GroupEnd(p, j + 1, 1) IN
             /\ e # 0
             /\ e <= hi
             /\ (j + 1 <= hi /\ p[j + 1] = "?" => j + 2 <= hi /\ p[j + 2] = ":")
             /\ ValidPattern(p, GroupBodyStart(p, j), e - 1, FALSE)
             /\ ValidPattern(p, e + 1, hi, TRUE)
      [] OTHER -> ValidPattern(p, j + 1, hi, TRUE)

\* the flags string is accepted by the RegExp constructor
ValidFlags(f) ==
  /\ \A k \in 1..Len(f) : f[k] \in {"d", "g", "i", "m", "s", "u", "v", "y"}
  /\ \A k, j \in 1..Len(f) : k # j => f[k] # f[j]
  /\ ~(Has(f, "u") /\ Has(f, "v"))

\* new RegExp(pattern, flags) does not throw
Compiles(p, f) == ValidFlags(f) /\ ValidPattern(p, 1, Len(p), FALSE)

\* the character class of an escape: \s \S \d \D, any other escaped character is itself
EscapeMatches(e, c, f) ==
  CASE e = "s" -> IsSpace(c)
    [] e = "S" -> ~IsSpace(c)
    [] e = "d" -> IsDigit(c)
    [] e = "D" -> ~IsDigit(c)
    [] OTHER -> IF Has(f, "i") THEN Canonicalize(e) = Canonicalize(c) ELSE e = c

RECURSIVE DisjEnds(_, _, _, _, _, _), AltEnds(_, _, _, _, _, _), EachAlt(_, _, _, _, _, _),
          StarEnds(_, _, _, _, _, _), EachStar(_, _, _, _, _, _), AtomEnds(_, _, _, _, _, _)

\* End offsets, in the engine's backtracking order, of the matches of the
\* disjunction p[lo..hi] that start at offset i of s (offset i: i characters consumed).
DisjEnds(p, f, lo, hi, s, i) ==
  LET b == FirstBar(p, lo, hi) IN
    IF b = 0 THEN AltEnds(p, f, lo, hi, s, i)
    ELSE Uniq(AltEnds(p, f, lo, b - 1, s, i) \o DisjEnds(p, f, b + 1, hi, s, i), <<>>)

AtomEnds(p, f, lo, ae, s, i) ==
  LET c == p[lo] IN
    CASE c = "^" -> IF i = 0 \/ (Has(f, "m") /\ s[i] = NL) THEN <<i>> ELSE <<>>
      [] c = "$" -> IF i = Len(s) \/ (Has(f, "m") /\ s[i + 1] = NL) THEN <<i>> ELSE <<>>
      [] c = "(" -> DisjEnds(p, f, GroupBodyStart(p, lo), ae - 1, s, i)
      [] c = "." -> IF i < Len(s) /\ (Has(f, "s") \/ s[i + 1] \notin {NL, "\r"}) THEN <<i + 1>> ELSE <<>>
      [] c = BS -> IF i < Len(s) /\ EscapeMatches(p[lo + 1], s[i + 1], f) THEN <<i + 1>> ELSE <<>>
      [] OTHER -> IF i < Len(s) /\ (IF Has(f, "i") THEN Canonicalize(c) = Canonicalize(s[i + 1]) ELSE c = s[i + 1])
                  THEN <<i + 1>> ELSE <<>>

\* a term is an atom with an optional greedy quantifier; the rest of the alternative follows each end
AltEnds(p, f, lo, hi, s, i) ==
  IF lo > hi THEN <<i>>
  ELSE
    LET ae == AtomEnd(p, lo)
        q == IF ae + 1 <= hi /\ p[ae + 1] \in {"+", "*"} THEN p[ae + 1] ELSE ""
        rest == IF q = "" THEN ae + 1 ELSE ae + 2
        first == CASE q = "*" -> StarEnds(p, f, lo, ae, s, i)
                   [] q = "+" -> EachStar(p, f, lo, ae, s, AtomEnds(p, f, lo, ae, s, i))
                   [] OTHER -> AtomEnds(p, f, lo, ae, s, i)
    IN EachAlt(p, f, rest, hi, s, first)

EachAlt(p, f, lo, hi, s, es) ==
  IF es = <<>> THEN <<>>
  ELSE Uniq(AltEnds(p, f, lo, hi, s, Head(es)) \o EachAlt(p, f, lo, hi, s, Tail(es)), <<>>)

\* greedy repetition: one more iteration (it must consume input) before stopping here
StarEnds(p, f, lo, ae, s, i) ==
  Uniq(EachStar(p, f, lo, ae, s, SelectSeq(AtomEnds(p, f, lo, ae, s, i), LAMBDA e : e > i)) \o <<i>>, <<>>)

EachStar(p, f, lo, ae, s, es) ==
  IF es = <<>> THEN <<>>
  ELSE Uniq(StarEnds(p, f, lo, ae, s, Head(es)) \o EachStar(p, f, lo, ae, s, Tail(es)), <<>>)

\* the end offsets of the matches of the whole pattern at offset i
MatchAt(p, f, s, i) == DisjEnds(p, f, 1, Len(p), s, i)

\* RegExp.prototype.test on the regular expression object re = [source, flags, lastIndex]:
\* the result and the lastIndex the object is left with.  A global or sticky
\* expression starts at lastIndex and records where its match ended.
RegExpTest(re, s) ==
  LET stateful == Has(re.flags, "g") \/ Has(re.flags, "y")
      from == IF stateful THEN re.lastIndex ELSE 0
      starts == IF from > Len(s) THEN {}
                ELSE IF Has(re.flags, "y") THEN {from}
                ELSE from..Len(s)
      hits == {i \in starts : MatchAt(re.source, re.flags, s, i) # <<>>}
      at == CHOOSE i \in hits : \A j \in hits : i <= j
  IN IF hits = {}
     THEN [result |-> FALSE, lastIndex |-> IF stateful THEN 0 ELSE re.lastIndex]
     ELSE [result |-> TRUE,
           lastIndex |-> IF stateful THEN Head(MatchAt(re.source, re.flags, s, at)) ELSE re.lastIndex]

(***************************************************************************)
(* Helpers of the hook (check-permissions, the version the tests run)      *)
(***************************************************************************)

\* JavaScript truthiness of a value that is undefined or a string
Truthy(x) == x # None /\ x # <<>>

\* isSafeRegex that rejects nothing
isSafeRegex_acceptAll(pattern) == TRUE

\* isSafeRegex: the pattern holds no "(" atom [+*] ")" [+*{], where atom is ".",
\* an escape "\x" (x not a line terminator) or one character other than ")" and "\"
isSafeRegex(pattern) ==
  ~ \E i \in 1..Len(pattern) : \E n \in {1, 2} :
      /\ pattern[i] = "("
      /\ i + n + 3 <= Len(pattern)
      /\ IF n = 1 THEN pattern[i + 1] \notin {")", BS}
                  ELSE pattern[i + 1] = BS /\ pattern[i + 2] \notin {NL, "\r"}
      /\ pattern[i + n + 1] \in {"+", "*"}
      /\ pattern[i + n + 2] = ")"
      /\ pattern[i + n + 3] \in {"+", "*", "{"}

\* the key of regexCache: `${flags || ""}:${pattern}`
CacheKey(pattern, flags) == (IF Truthy(flags) THEN flags ELSE <<>>) \o <<":">> \o pattern

\* toRegex that compiles and stores a new RegExp at every call, stored key or not
toRegex_alwaysCompile(cache, pattern, flags) ==
  LET key == CacheKey(pattern, flags)
      fl == IF Truthy(flags) THEN flags ELSE <<>>
  IN IF ~isSafeRegex(pattern) THEN [re |-> None, cache |-> cache]
     ELSE IF ~Compiles(pattern, fl) THEN [re |-> None, cache |-> cache]
     ELSE [re |-> key,
           cache |-> [k \in DOMAIN cache \cup {key} |->
                        IF k = key THEN [source |-> pattern, flags |-> fl, lastIndex |-> 0]
                        ELSE cache[k]]]

\* toRegex(pattern, flags) on the cache: the RegExp object returned (named by the
\* key it is stored under, None for null) and the cache afterwards
toRegex(cache, pattern, flags) ==
  LET key == CacheKey(pattern, flags)
      fl == IF Truthy(flags) THEN flags ELSE <<>>
  IN IF key \in DOMAIN cache THEN [re |-> key, cache |-> cache]
     ELSE IF ~isSafeRegex(pattern) THEN [re |-> None, cache |-> cache]
     ELSE IF ~Compiles(pattern, fl) THEN [re |-> None, cache |-> cache]
     ELSE [re |-> key,
           cache |-> [k \in DOMAIN cache \cup {key} |->
                        IF k = key THEN [source |-> pattern, flags |-> fl, lastIndex |-> 0]
                        ELSE cache[k]]]

\* a field of the tool input, None when the field or the whole input is missing
Field(toolInput, name) ==
  IF toolInput = Null THEN None
  ELSE IF name \in DOMAIN toolInput THEN toolInput[name] ELSE None

\* a || b of JavaScript
OrElse(a, b) == IF Truthy(a) THEN a ELSE b

\* getPrimaryContent that tries the common fields for every tool
getPrimaryContent_commonFields(toolName, toolInput) ==
  IF toolInput = Null THEN None
  ELSE OrElse(Field(toolInput, "command"),
         OrElse(Field(toolInput, "file_path"),
           OrElse(Field(toolInput, "url"), Field(toolInput, "pattern"))))

getPrimaryContent(toolName, toolInput) ==
  IF toolInput = Null THEN None
  ELSE IF toolName = <<"B","a","s","h">> THEN Field(toolInput, "command")
  ELSE IF toolName \in {<<"E","d","i","t">>, <<"W","r","i","t","e">>, <<"R","e","a","d">>}
       THEN Field(toolInput, "file_path")
  ELSE IF toolName = <<"W","e","b","F","e","t","c","h">> THEN Field(toolInput, "url")
  ELSE IF toolName = <<"G","r","e","p">> THEN Field(toolInput, "pattern")
  ELSE IF toolName = <<"G","l","o","b">> THEN Field(toolInput, "pattern")
  ELSE IF toolName = <<"W","e","b","S","e","a","r","c","h">> THEN Field(toolInput, "query")
  ELSE OrElse(Field(toolInput, "command"),
         OrElse(Field(toolInput, "file_path"),
           OrElse(Field(toolInput, "url"), Field(toolInput, "pattern"))))

\* a rule entry of a configuration: a string, or an object with rule, reason and flags
StringEntry(rule) == [kind |-> "string", rule |-> rule, reason |-> NoReason, flags |-> None]
ObjectEntry(rule, reason, flags) == [kind |-> "object", rule |-> rule, reason |-> reason, flags |-> flags]
\* an entry that is neither a string nor an object: the number 42
NumberEntry == [kind |-> "number", rule |-> None, reason |-> NoReason, flags |-> None]

\* the rule text of an entry: the entry itself when it is a string, else its rule field
RawOf(entry) == entry.rule

\* the match that ends the content at the first ")" and allows text after it
RuleShape_firstClose(raw) ==
  LET open == IndexOf(raw, "(")
      close == IndexOf(raw, ")")
  IN IF open >= 2 /\ close >= open + 2
     THEN [tool |-> SubSeq(raw, 1, open - 1), content |-> SubSeq(raw, open + 1, close - 1)]
     ELSE Null

\* raw.match(/^([^(]+)\((.+)\)$/s): tool is the text before the first "(", content
\* the text from there to the final ")"; Null when the shape is not found
RuleShape(raw) ==
  LET open == IndexOf(raw, "(") IN
    IF open >= 2 /\ raw[Len(raw)] = ")" /\ Len(raw) >= open + 2
    THEN [tool |-> SubSeq(raw, 1, open - 1), content |-> SubSeq(raw, open + 1, Len(raw) - 1)]
    ELSE Null

\* flags.replace(/g/g, "")
StripG(flags) == SelectSeq(flags, LAMBDA c : c # "g")

\* the flags of the entry passed on as they are, g included
ContentFlags_keepG(entry) == IF entry.kind = "object" THEN entry.flags ELSE None

\* the flags parseRule compiles the content pattern with
ContentFlags(entry) ==
  LET flags == IF entry.kind = "object" THEN entry.flags ELSE None IN
    IF Truthy(flags) /\ Has(flags, "g")
    THEN (IF StripG(flags) = <<>> THEN None ELSE StripG(flags))
    ELSE flags

\* "^(?:" + tool + ")$"
Anchored(tool) == <<"^", "(", "?", ":">> \o tool \o <<")", "$">>

\* parseRule(entry) on the cache: the parsed rule (Null for null, Threw when it
\* throws) and the cache afterwards
parseRule(cache, entry) ==
  LET raw == RawOf(entry) IN
    IF ~Truthy(raw) THEN [rule |-> Null, cache |-> cache]
    ELSE IF raw = NotAString THEN [rule |-> Threw, cache |-> cache]        \* raw.match is not a function
    ELSE LET match == RuleShape(raw) IN
      IF match = Null THEN [rule |-> Null, cache |-> cache]
      ELSE IF entry.kind = "object" /\ entry.flags = NotAString
      THEN [rule |-> Threw, cache |-> cache]                               \* flags.includes is not a function
      ELSE Bind(toRegex(cache, Anchored(match.tool), None), LAMBDA t :
           Bind(toRegex(t.cache, match.content, ContentFlags(entry)), LAMBDA c :
             IF t.re = None \/ c.re = None THEN [rule |-> Null, cache |-> c.cache]
             ELSE [rule |-> [toolRe |-> t.re, contentRe |-> c.re,
                             reason |-> IF entry.kind = "object" THEN entry.reason ELSE NoReason],
                   cache |-> c.cache]))

EmptyConfig == [deny |-> <<>>, ask |-> <<>>, allow |-> <<>>]

\* (config[key] || []): a category of a raw configuration, empty when the key is missing
OrEmpty(config, key) == IF key \in DOMAIN config THEN config[key] ELSE <<>>

\* The value of a category is an array of entries, or it is not an array: the
\* string "not-an-array" or the number 42, each written as a one-element
\* sequence that holds a marker.
NotAnArrayText == <<"n","o","t","-","a","n","-","a","r","r","a","y">>
StringValue == <<[kind |-> "value: string", rule |-> None, reason |-> NoReason, flags |-> None]>>
NumberValue == <<[kind |-> "value: number", rule |-> None, reason |-> NoReason, flags |-> None]>>

\* Array.isArray(val)
IsArray(val) == val \notin {StringValue, NumberValue}

\* x.concat(y): of an array (a value that is not an array is appended as one
\* element), of a string (a string), of a number (a TypeError)
Concat(x, y) ==
  IF x = NumberValue THEN Threw
  ELSE IF x = StringValue THEN StringValue
  ELSE IF y = StringValue THEN x \o <<StringEntry(NotAnArrayText)>>
  ELSE IF y = NumberValue THEN x \o <<NumberEntry>>
  ELSE x \o y

\* mergeConfigs that reads the categories of a and b without the null checks
mergeConfigs_noNullCheck(a, b) ==
  IF a = Null \/ b = Null THEN Threw
  ELSE IF \E key \in {"deny", "ask", "allow"} : OrEmpty(a, key) = NumberValue THEN Threw
  ELSE [deny |-> Concat(OrEmpty(a, "deny"), OrEmpty(b, "deny")),
        ask |-> Concat(OrEmpty(a, "ask"), OrEmpty(b, "ask")),
        allow |-> Concat(OrEmpty(a, "allow"), OrEmpty(b, "allow"))]

\* mergeConfigs that puts b's entries before a's
mergeConfigs_globalFirst(a, b) ==
  IF a = Null THEN (IF b = Null THEN EmptyConfig ELSE b)
  ELSE IF b = Null THEN a
  ELSE [deny |-> OrEmpty(b, "deny") \o OrEmpty(a, "deny"),
        ask |-> OrEmpty(b, "ask") \o OrEmpty(a, "ask"),
        allow |-> OrEmpty(b, "allow") \o OrEmpty(a, "allow")]

\* mergeConfigs(a, b), Threw when a concat throws
mergeConfigs(a, b) ==
  IF a = Null THEN (IF b = Null THEN EmptyConfig ELSE b)
  ELSE IF b = Null THEN a
  ELSE IF \E key \in {"deny", "ask", "allow"} : OrEmpty(a, key) = NumberValue THEN Threw
  ELSE [deny |-> Concat(OrEmpty(a, "deny"), OrEmpty(b, "deny")),
        ask |-> Concat(OrEmpty(a, "ask"), OrEmpty(b, "ask")),
        allow |-> Concat(OrEmpty(a, "allow"), OrEmpty(b, "allow"))]

\* safeArray(key) of prepareRules: the value when it is an array, else empty
safeArray(config, key) ==
  IF key \notin DOMAIN config THEN <<>>
  ELSE IF ~IsArray(config[key]) THEN <<>>
  ELSE config[key]

\* safeArray(key).map(parseRule).filter(Boolean), entry k onwards, on the cache;
\* a throw of parseRule ends the map (threw)
RECURSIVE ParseAll(_, _, _)
ParseAll(cache, entries, k) ==
  IF k > Len(entries) THEN [rules |-> <<>>, cache |-> cache, threw |-> FALSE]
  ELSE Bind(parseRule(cache, entries[k]), LAMBDA p :
       IF p.rule = Threw THEN [rules |-> <<>>, cache |-> p.cache, threw |-> TRUE]
       ELSE Bind(ParseAll(p.cache, entries, k + 1), LAMBDA r :
         [rules |-> IF p.rule = Null THEN r.rules ELSE <<p.rule>> \o r.rules,
          cache |-> r.cache, threw |-> r.threw]))

\* prepareRules(config) on the cache: the prepared rules (Threw when parseRule
\* threw) and the cache afterwards
prepareRules(cache, config) ==
  Bind(ParseAll(cache, safeArray(config, "deny"), 1), LAMBDA d :
    IF d.threw THEN [rules |-> Threw, cache |-> d.cache]
    ELSE Bind(ParseAll(d.cache, safeArray(config, "ask"), 1), LAMBDA k :
      IF k.threw THEN [rules |-> Threw, cache |-> k.cache]
      ELSE Bind(ParseAll(k.cache, safeArray(config, "allow"), 1), LAMBDA a :
        IF a.threw THEN [rules |-> Threw, cache |-> a.cache]
        ELSE [rules |-> [deny |-> d.rules, ask |-> k.rules, allow |-> a.rules], cache |-> a.cache])))

(***************************************************************************)
(* Evaluation                                                              *)
(***************************************************************************)

\* re.test(s) for the cached object named key: the result and the cache afterwards
Test(cache, key, s) ==
  Bind(RegExpTest(cache[key], s), LAMBDA r :
    [result |-> r.result, cache |-> [cache EXCEPT ![key].lastIndex = r.lastIndex]])

\* ruleMatches that tests undefined content as the text "undefined"
ruleMatches_undefinedAsText(cache, parsed, toolName, content) ==
  Bind(Test(cache, parsed.toolRe, toolName), LAMBDA t :
    IF ~t.result THEN [result |-> FALSE, cache |-> t.cache]
    ELSE Test(t.cache, parsed.contentRe,
              IF content = None THEN <<"u","n","d","e","f","i","n","e","d">> ELSE content))

ruleMatches(cache, parsed, toolName, content) ==
  Bind(Test(cache, parsed.toolRe, toolName), LAMBDA t :
    IF ~t.result THEN [result |-> FALSE, cache |-> t.cache]
    ELSE IF content = None THEN [result |-> FALSE, cache |-> t.cache]
    ELSE Test(t.cache, parsed.contentRe, content))

\* the loop over lines that stops after the first line
AnyLineFrom_firstLineOnly(cache, parsed, toolName, lines, k) ==
  IF k > Len(lines) \/ k > 1 THEN [result |-> FALSE, cache |-> cache]
  ELSE ruleMatches(cache, parsed, toolName, lines[k])

\* the loop over lines of matchesAnyLine, from line k
RECURSIVE AnyLineFrom(_, _, _, _, _)
AnyLineFrom(cache, parsed, toolName, lines, k) ==
  IF k > Len(lines) THEN [result |-> FALSE, cache |-> cache]
  ELSE Bind(ruleMatches(cache, parsed, toolName, lines[k]), LAMBDA m :
    IF m.result THEN m ELSE AnyLineFrom(m.cache, parsed, toolName, lines, k + 1))

\* matchesAnyLine that looks at the whole content only
matchesAnyLine_wholeOnly(cache, parsed, toolName, content, lines) ==
  ruleMatches(cache, parsed, toolName, content)

matchesAnyLine(cache, parsed, toolName, content, lines) ==
  Bind(ruleMatches(cache, parsed, toolName, content), LAMBDA m :
    IF m.result THEN m
    ELSE IF lines.present THEN AnyLineFrom(m.cache, parsed, toolName, lines.list, 1)
    ELSE m)

\* content.split("\n")
RECURSIVE Split(_, _)
Split(t, cur) ==
  IF t = <<>> THEN <<cur>>
  ELSE IF Head(t) = NL THEN <<cur>> \o Split(Tail(t), <<>>)
  ELSE Split(Tail(t), Append(cur, Head(t)))

\* String.prototype.trim
RECURSIVE TrimLeft(_), TrimRight(_)
TrimLeft(t) == IF t # <<>> /\ IsSpace(Head(t)) THEN TrimLeft(Tail(t)) ELSE t
TrimRight(t) == IF t # <<>> /\ IsSpace(t[Len(t)]) THEN TrimRight(SubSeq(t, 1, Len(t) - 1)) ELSE t
Trim(t) == TrimRight(TrimLeft(t))

\* the multiline view: the trimmed non-empty lines as list, with present = FALSE
\* for the null of single-line content
LinesOf(content) ==
  IF Truthy(content) /\ Has(content, NL)
  THEN [present |-> TRUE,
        list |-> SelectSeq([k \in 1..Len(Split(content, <<>>)) |-> Trim(Split(content, <<>>)[k])],
                           LAMBDA l : l # <<>>)]
  ELSE [present |-> FALSE, list |-> <<>>]

\* the loop over a category that goes on to the last rule that matches
RECURSIVE FirstAnyLine_lastWins(_, _, _, _, _, _)
FirstAnyLine_lastWins(cache, rs, k, toolName, content, lines) ==
  IF k > Len(rs) THEN [index |-> 0, cache |-> cache]
  ELSE Bind(FirstAnyLine_lastWins(cache, rs, k + 1, toolName, content, lines), LAMBDA later :
    IF later.index # 0 THEN later
    ELSE Bind(matchesAnyLine(later.cache, rs[k], toolName, content, lines), LAMBDA m :
      [index |-> IF m.result THEN k ELSE 0, cache |-> m.cache]))

\* a for loop over a category with matchesAnyLine: index of the first rule that matches (0: none)
RECURSIVE FirstAnyLine(_, _, _, _, _, _)
FirstAnyLine(cache, rs, k, toolName, content, lines) ==
  IF k > Len(rs) THEN [index |-> 0, cache |-> cache]
  ELSE Bind(matchesAnyLine(cache, rs[k], toolName, content, lines), LAMBDA m :
    IF m.result THEN [index |-> k, cache |-> m.cache]
    ELSE FirstAnyLine(m.cache, rs, k + 1, toolName, content, lines))

\* rules.allow.some(p => ruleMatches(p, toolName, line)), and the single-line loop over allow
RECURSIVE SomeAllow(_, _, _, _, _)
SomeAllow(cache, rs, k, toolName, content) ==
  IF k > Len(rs) THEN [result |-> FALSE, cache |-> cache]
  ELSE Bind(ruleMatches(cache, rs[k], toolName, content), LAMBDA m :
    IF m.result THEN m ELSE SomeAllow(m.cache, rs, k + 1, toolName, content))

\* the loop over lines of the allow pass: every line has an allow rule
RECURSIVE EveryLineAllowed(_, _, _, _, _)
EveryLineAllowed(cache, rs, toolName, lines, k) ==
  IF k > Len(lines) THEN [result |-> TRUE, cache |-> cache]
  ELSE Bind(SomeAllow(cache, rs, 1, toolName, lines[k]), LAMBDA m :
    IF ~m.result THEN m ELSE EveryLineAllowed(m.cache, rs, toolName, lines, k + 1))

DenyDefault == "Blocked by regex-permissions deny rule"
AskDefault == "Flagged by regex-permissions ask rule"

\* parsed.reason || fallback
ReasonOr(reason, fallback) == IF reason # NoReason /\ reason # "" THEN reason ELSE fallback

\* evaluate with the ask pass before the deny pass
evaluate_askFirst(cache, rules, toolName, toolInput) ==
  Bind(getPrimaryContent(toolName, toolInput), LAMBDA content :
  Bind(LinesOf(content), LAMBDA lines :
  Bind(FirstAnyLine(cache, rules.ask, 1, toolName, content, lines), LAMBDA a :
    IF a.index # 0
    THEN [result |-> [decision |-> "ask", reason |-> ReasonOr(rules.ask[a.index].reason, AskDefault)],
          cache |-> a.cache]
    ELSE Bind(FirstAnyLine(a.cache, rules.deny, 1, toolName, content, lines), LAMBDA d :
      IF d.index # 0
      THEN [result |-> [decision |-> "deny", reason |-> ReasonOr(rules.deny[d.index].reason, DenyDefault)],
            cache |-> d.cache]
      ELSE IF lines.present
      THEN Bind(EveryLineAllowed(d.cache, rules.allow, toolName, lines.list, 1), LAMBDA e :
             [result |-> IF e.result THEN [decision |-> "allow", reason |-> NoReason] ELSE Null,
              cache |-> e.cache])
      ELSE Bind(SomeAllow(d.cache, rules.allow, 1, toolName, content), LAMBDA s :
             [result |-> IF s.result THEN [decision |-> "allow", reason |-> NoReason] ELSE Null,
              cache |-> s.cache])))))

\* evaluate(rules, toolName, toolInput) on the cache: the result (Null for null) and the cache afterwards
evaluate(cache, rules, toolName, toolInput) ==
  Bind(getPrimaryContent(toolName, toolInput), LAMBDA content :
  Bind(LinesOf(content), LAMBDA lines :
  Bind(FirstAnyLine(cache, rules.deny, 1, toolName, content, lines), LAMBDA d :
    IF d.index # 0
    THEN [result |-> [decision |-> "deny", reason |-> ReasonOr(rules.deny[d.index].reason, DenyDefault)],
          cache |-> d.cache]
    ELSE Bind(FirstAnyLine(d.cache, rules.ask, 1, toolName, content, lines), LAMBDA a :
      IF a.index # 0
      THEN [result |-> [decision |-> "ask", reason |-> ReasonOr(rules.ask[a.index].reason, AskDefault)],
            cache |-> a.cache]
      ELSE IF lines.present
      THEN Bind(EveryLineAllowed(a.cache, rules.allow, toolName, lines.list, 1), LAMBDA e :
             [result |-> IF e.result THEN [decision |-> "allow", reason |-> NoReason] ELSE Null,
              cache |-> e.cache])
      ELSE Bind(SomeAllow(a.cache, rules.allow, 1, toolName, content), LAMBDA s :
             [result |-> IF s.result THEN [decision |-> "allow", reason |-> NoReason] ELSE Null,
              cache |-> s.cache])))))

(***************************************************************************)
(* scripts/check-permissions.js: the earlier script of the repository.  It *)
(* keeps the raw rules and compiles them at each match.                    *)
(***************************************************************************)

scriptToRegex(cache, pattern, flags) ==
  LET key == CacheKey(pattern, flags)
      fl == IF Truthy(flags) THEN flags ELSE <<>>
  IN IF key \in DOMAIN cache THEN [re |-> key, cache |-> cache]
     ELSE IF ~Compiles(pattern, fl) THEN [re |-> None, cache |-> cache]
     ELSE [re |-> key,
           cache |-> [k \in DOMAIN cache \cup {key} |->
                        IF k = key THEN [source |-> pattern, flags |-> fl, lastIndex |-> 0]
                        ELSE cache[k]]]

scriptParseRule(entry) ==
  LET raw == RawOf(entry) IN
    IF ~Truthy(raw) THEN Null
    ELSE IF raw = NotAString THEN Threw                                    \* raw.match is not a function
    ELSE LET match == RuleShape(raw) IN
      IF match = Null THEN Null
      ELSE [tool |-> match.tool,
            pattern |-> match.content,
            reason |-> IF entry.kind = "object" THEN entry.reason ELSE NoReason,
            flags |-> IF entry.kind = "object" THEN entry.flags ELSE None]

scriptRuleMatches(cache, parsed, toolName, content) ==
  IF parsed = Null THEN [result |-> FALSE, cache |-> cache]
  ELSE Bind(scriptToRegex(cache, parsed.tool, parsed.flags), LAMBDA t :
    IF t.re = None THEN [result |-> FALSE, cache |-> t.cache]
    ELSE Bind(Test(t.cache, t.re, toolName), LAMBDA tt :
      IF ~tt.result THEN [result |-> FALSE, cache |-> tt.cache]
      ELSE IF content = None THEN [result |-> FALSE, cache |-> tt.cache]
      ELSE Bind(scriptToRegex(tt.cache, parsed.pattern, parsed.flags), LAMBDA c :
        IF c.re = None THEN [result |-> TRUE, cache |-> c.cache]
        ELSE Test(c.cache, c.re, content))))

\* what "for (const entry of rules[key] || [])" runs over: the entries of an
\* array, the characters of a string; a number is not iterable (NumberValue stays)
scriptIterable(rules, key) ==
  IF OrEmpty(rules, key) = StringValue
  THEN [k \in 1..Len(NotAnArrayText) |-> StringEntry(<<NotAnArrayText[k]>>)]
  ELSE OrEmpty(rules, key)

\* a for loop of the script's evaluate over the raw entries of one category:
\* the index of the first entry that matches (0: none, -1: parseRule threw)
RECURSIVE scriptFirstMatch(_, _, _, _, _)
scriptFirstMatch(cache, entries, k, toolName, content) ==
  IF entries = NumberValue THEN [index |-> -1, cache |-> cache]             \* not iterable
  ELSE IF k > Len(entries) THEN [index |-> 0, cache |-> cache]
  ELSE IF scriptParseRule(entries[k]) = Threw THEN [index |-> -1, cache |-> cache]
  ELSE Bind(scriptRuleMatches(cache, scriptParseRule(entries[k]), toolName, content), LAMBDA m :
    IF m.result THEN [index |-> k, cache |-> m.cache]
    ELSE scriptFirstMatch(m.cache, entries, k + 1, toolName, content))

scriptEvaluate(cache, rules, toolName, toolInput) ==
  Bind(getPrimaryContent(toolName, toolInput), LAMBDA content :
  Bind(scriptFirstMatch(cache, scriptIterable(rules, "deny"), 1, toolName, content), LAMBDA d :
    IF d.index = -1 THEN [result |-> Threw, cache |-> d.cache]
    ELSE IF d.index # 0
    THEN [result |-> [decision |-> "deny",
                      reason |-> ReasonOr(scriptParseRule(scriptIterable(rules, "deny")[d.index]).reason, DenyDefault)],
          cache |-> d.cache]
    ELSE Bind(scriptFirstMatch(d.cache, scriptIterable(rules, "ask"), 1, toolName, content), LAMBDA a :
      IF a.index = -1 THEN [result |-> Threw, cache |-> a.cache]
      ELSE IF a.index # 0
      THEN [result |-> [decision |-> "ask",
                        reason |-> ReasonOr(scriptParseRule(scriptIterable(rules, "ask")[a.index]).reason, AskDefault)],
            cache |-> a.cache]
      ELSE Bind(scriptFirstMatch(a.cache, scriptIterable(rules, "allow"), 1, toolName, content), LAMBDA w :
        [result |-> IF w.index = -1 THEN Threw
                    ELSE IF w.index # 0 THEN [decision |-> "allow", reason |-> NoReason] ELSE Null,
         cache |-> w.cache]))))

(***************************************************************************)
(* The inputs the model draws: tool names, contents, rule entries          *)
(***************************************************************************)
Bash == <<"B","a","s","h">>
BashExecutor == <<"B","a","s","h","E","x","e","c","u","t","o","r">>
bash == <<"b","a","s","h">>

ToolNames == {Bash, BashExecutor, bash}

Contents == { <<"a">>, <<"A">>, <<"b">>,
              <<"b", NL, " ", "a">>, <<"a", NL, "b", "a">>, <<NL>> }

\* the commands sent with the tool names no rule names
OtherContents == { <<"a">> }

\* the requests read from stdin: tool_name with a command, with another field
\* only, without tool_input, and without tool_name
Requests ==
  {[tool_name |-> Bash, tool_input |-> [command |-> c]] : c \in Contents}
    \cup {[tool_name |-> t, tool_input |-> [command |-> c]] : t \in ToolNames \ {Bash}, c \in OtherContents}
    \cup {[tool_name |-> Bash, tool_input |-> [file_path |-> <<"a">>]],
          [tool_name |-> Bash, tool_input |-> Null], [tool_name |-> None, tool_input |-> Null]}

\* what stdin holds when it cannot be read or is not JSON
Unreadable == [unreadable |-> TRUE]

Rule_a == Bash \o <<"(", "a", ")">>
Rule_b == Bash \o <<"(", "^", "b", ")">>

\* the rule entries configurations are made of
Entries == <<
  StringEntry(Rule_a),                                                        \* "Bash(a)"
  ObjectEntry(Rule_b, "no b", None),                                          \* { rule: "Bash(^b)", reason }
  ObjectEntry(<<"E","d","i","t","|">> \o Bash \o <<"(","^","a","$",")">>, NoReason, None),  \* "Edit|Bash(^a$)"
  StringEntry(Bash \o <<"(","(","a","+",")","+","$",")">>),                   \* "Bash((a+)+$)"
  StringEntry(Bash \o <<"(","+",")">>),                                       \* "Bash(+)"
  StringEntry(<<"+","(","a",")">>),                                           \* "+(a)"
  ObjectEntry(Rule_a, NoReason, <<"i">>),
  ObjectEntry(Rule_a, NoReason, <<"g">>),
  ObjectEntry(Rule_a, "g and i", <<"g","i">>),
  ObjectEntry(Rule_a, NoReason, <<"y">>),
  NumberEntry,                                                                \* 42
  ObjectEntry(NotAString, NoReason, None),                                    \* { rule: 42 }
  ObjectEntry(Rule_a, NoReason, NotAString),                                  \* { rule: "Bash(a)", flags: 42 }
  StringEntry(Bash \o <<"(", ".", "*", ")">>)                                 \* "Bash(.*)"
>>

MaxEntries == 1     \* rule entries in the project configuration

Categories == {"deny", "ask", "allow"}

\* configurations whose deny is not an array, next to a valid allow rule
MalformedConfigs == { [deny |-> v, allow |-> <<Entries[1]>>] : v \in {StringValue, NumberValue} }

\* project configurations: at most one entry per category, MaxEntries in all; a
\* category without an entry is a missing key
ProjectConfigs ==
  {Null} \cup MalformedConfigs \cup
  { [k \in {c \in Categories : pick[c] # 0} |-> <<Entries[pick[k]]>>] :
      pick \in {q \in [Categories -> 0..Len(Entries)] :
                  Cardinality({c \in Categories : q[c] # 0}) <= MaxEntries} }

\* global configurations: absent, or one rule in one category
GlobalEntries == [deny |-> {Entries[2]}, ask |-> {Entries[10]}, allow |-> {Entries[1]}]
GlobalConfigs == {Null} \cup UNION { { [k \in {c} |-> <<e>>] : e \in GlobalEntries[c] } : c \in Categories }

(***************************************************************************)
(* The process: main() of the hook, or of the earlier script               *)
(***************************************************************************)
VARIABLES program,        \* which file runs: "hook" or "script"
          pc,             \* position in main: "start", "read", "loaded", "evaluated", "done", "crashed";
                          \* after a call on its own: "extracted", "compiled", "tested", "parsed"
          input,          \* the request parsed from stdin
          projectConfig,  \* loadConfig of the project scope
          globalConfig,   \* loadConfig of the global scope
          merged,         \* mergeConfigs(projectConfig, globalConfig)
          rules,          \* prepareRules(merged)
          regexCache,     \* the process-wide regexCache
          content,        \* what getPrimaryContent returned
          result,         \* what evaluate returned
          output,         \* the object written to stdout
          compiled        \* the last call of toRegex or parseRule on its own: its arguments and what it returned

vars == <<program, pc, input, projectConfig, globalConfig, merged, rules, regexCache, content, result, output,
          compiled>>

EmptyObject == <<>>
EmptyCache == <<>>
NoRules == [deny |-> <<>>, ask |-> <<>>, allow |-> <<>>]

Init ==
  /\ program \in {"hook", "script"}
  /\ pc = "start"
  /\ input = Null
  /\ projectConfig = Null
  /\ globalConfig = Null
  /\ merged = Null
  /\ rules = NoRules
  /\ regexCache = EmptyCache
  /\ content = None
  /\ result = Null
  /\ output = Null
  /\ compiled = Null

\* main: read and parse stdin; a request without tool_name ends with {}
ReadInput(req) ==
  /\ pc = "start"
  /\ IF req = Unreadable
     THEN input' = input /\ pc' = "done" /\ output' = EmptyObject           \* the catch around JSON.parse
     ELSE /\ input' = req
          /\ IF ~Truthy(req.tool_name)
             THEN pc' = "done" /\ output' = EmptyObject
             ELSE pc' = "read" /\ output' = output
  /\ UNCHANGED <<program, projectConfig, globalConfig, merged, rules, regexCache, content, result, compiled>>

\* main of the hook: load both scopes, merge, prepare; no rule left ends with {},
\* and so does a throw of prepareRules, in the catch of main()
LoadRules(a, b) ==
  /\ pc = "read"
  /\ program = "hook"
  /\ projectConfig' = a
  /\ globalConfig' = b
  /\ IF mergeConfigs(a, b) = Threw
     THEN /\ pc' = "done" /\ output' = EmptyObject                          \* main().catch
          /\ UNCHANGED <<merged, rules, regexCache>>
     ELSE
       /\ merged' = mergeConfigs(a, b)
       /\ \E p \in {prepareRules(regexCache, mergeConfigs(a, b))} :
            /\ regexCache' = p.cache
            /\ IF p.rules = Threw
               THEN rules' = rules /\ pc' = "done" /\ output' = EmptyObject  \* main().catch
               ELSE /\ rules' = p.rules
                    /\ IF Len(p.rules.deny) = 0 /\ Len(p.rules.ask) = 0 /\ Len(p.rules.allow) = 0
                       THEN pc' = "done" /\ output' = EmptyObject
                       ELSE pc' = "loaded" /\ output' = output
  /\ UNCHANGED <<program, input, content, result, compiled>>

\* evaluate that stores the default reason in the deny rules without one when it denies
rulesAfterEvaluate_storeReason(rs, r) ==
  IF r # Null /\ r.decision = "deny"
  THEN [rs EXCEPT !.deny = [k \in 1..Len(rs.deny) |->
                              [rs.deny[k] EXCEPT !.reason = ReasonOr(rs.deny[k].reason, DenyDefault)]]]
  ELSE rs

\* the prepared rule set after a call of evaluate that returned r: evaluate
\* assigns to no category and to no rule
rulesAfterEvaluate(rs, r) == rs

\* the object the hook writes for a result
Render(r) ==
  IF r = Null THEN EmptyObject
  ELSE IF r.reason # NoReason /\ r.reason # ""
  THEN [hookSpecificOutput |-> [permissionDecision |-> r.decision, permissionDecisionReason |-> r.reason]]
  ELSE [hookSpecificOutput |-> [permissionDecision |-> r.decision]]

\* main of the hook: evaluate the request and write the output
Evaluate ==
  /\ pc = "loaded"
  /\ program = "hook"
  /\ content' = getPrimaryContent(input.tool_name, input.tool_input)
  /\ \E e \in {evaluate(regexCache, rules, input.tool_name, input.tool_input)} :
       /\ result' = e.result
       /\ regexCache' = e.cache
       /\ rules' = rulesAfterEvaluate(rules, e.result)
       /\ output' = Render(e.result)
  /\ pc' = "evaluated"
  /\ UNCHANGED <<program, input, projectConfig, globalConfig, merged, compiled>>

\* merged[key]?.length, 0 standing for the undefined of a missing key or a number
scriptLength(m, key) ==
  IF OrEmpty(m, key) = NumberValue THEN 0
  ELSE IF OrEmpty(m, key) = StringValue THEN Len(NotAnArrayText)
  ELSE Len(OrEmpty(m, key))

\* main of the script: load both scopes and merge; no raw rule ends with {}
scriptLoad(a, b) ==
  /\ pc = "read"
  /\ program = "script"
  /\ projectConfig' = a
  /\ globalConfig' = b
  /\ LET m == mergeConfigs(a, b) IN
       IF m = Threw
       THEN pc' = "crashed" /\ output' = output /\ merged' = merged         \* uncaught: nothing is written
       ELSE /\ merged' = m
            /\ IF scriptLength(m, "deny") = 0 /\ scriptLength(m, "ask") = 0 /\ scriptLength(m, "allow") = 0
               THEN pc' = "done" /\ output' = EmptyObject
               ELSE pc' = "loaded" /\ output' = output
  /\ UNCHANGED <<program, input, rules, regexCache, content, result, compiled>>

\* the object the script writes for a result
scriptRender(r) ==
  IF r = Null THEN EmptyObject
  ELSE IF r.reason # NoReason /\ r.reason # ""
  THEN [hookSpecificOutput |-> [permissionDecision |-> r.decision, reason |-> r.reason]]
  ELSE [hookSpecificOutput |-> [permissionDecision |-> r.decision]]

\* main of the script: evaluate the request against the raw rules and write the output
scriptMain ==
  /\ pc = "loaded"
  /\ program = "script"
  /\ content' = getPrimaryContent(input.tool_name, input.tool_input)
  /\ \E e \in {scriptEvaluate(regexCache, merged, input.tool_name, input.tool_input)} :
       /\ regexCache' = e.cache
       /\ IF e.result = Threw
          THEN result' = result /\ output' = output /\ pc' = "crashed"     \* uncaught: nothing is written
          ELSE result' = e.result /\ output' = scriptRender(e.result) /\ pc' = "evaluated"
  /\ UNCHANGED <<program, input, projectConfig, globalConfig, merged, rules, compiled>>

Next ==
  \/ \E req \in Requests \cup {Unreadable} : ReadInput(req)
  \/ \E a \in ProjectConfigs, b \in GlobalConfigs : LoadRules(a, b)
  \/ Evaluate
  \/ \E a \in ProjectConfigs, b \in GlobalConfigs : scriptLoad(a, b)
  \/ scriptMain

Spec == Init /\ [][Next]_vars

(***************************************************************************)
(* The core used by a long-lived caller: the hook's prepared rule set and  *)
(* cache stay, and evaluate is called for one request after another.       *)
(***************************************************************************)
EvaluateAgain(req) ==
  /\ pc = "evaluated"
  /\ program = "hook"
  /\ Truthy(req.tool_name)
  /\ input' = req
  /\ content' = getPrimaryContent(req.tool_name, req.tool_input)
  /\ \E e \in {evaluate(regexCache, rules, req.tool_name, req.tool_input)} :
       /\ result' = e.result
       /\ regexCache' = e.cache
       /\ rules' = rulesAfterEvaluate(rules, e.result)
       /\ output' = Render(e.result)
  /\ UNCHANGED <<program, pc, projectConfig, globalConfig, merged, compiled>>

InitService == Init /\ program = "hook"

\* the requests the long-lived caller goes on with
ServiceRequests ==
  {[tool_name |-> Bash, tool_input |-> [command |-> c]] : c \in {<<"a">>, <<"A">>, <<"a", NL, "a">>}}

NextService ==
  \/ \E req \in Requests \cup {Unreadable} : ReadInput(req)
  \/ \E a \in ProjectConfigs, b \in GlobalConfigs : LoadRules(a, b)
  \/ Evaluate
  \/ \E req \in ServiceRequests : EvaluateAgain(req)

SpecService == InitService /\ [][NextService]_vars

(***************************************************************************)
(* getPrimaryContent on its own: every tool of its table and one it does   *)
(* not name, with every choice of fields in the tool input.                *)
(***************************************************************************)
Edit == <<"E","d","i","t">>
Write == <<"W","r","i","t","e">>
Read == <<"R","e","a","d">>
WebFetch == <<"W","e","b","F","e","t","c","h">>
Grep == <<"G","r","e","p">>
Glob == <<"G","l","o","b">>
WebSearch == <<"W","e","b","S","e","a","r","c","h">>
McpTool == <<"m","c","p","_","_","x">>

ExtractTools == {Bash, Edit, Write, Read, WebFetch, Grep, Glob, WebSearch, McpTool}

Fields == {"command", "file_path", "url", "pattern", "query"}

\* the value a field holds in the inputs drawn: its own initial letter
FieldValue(name) ==
  CASE name = "command" -> <<"c">>
    [] name = "file_path" -> <<"f">>
    [] name = "url" -> <<"u">>
    [] name = "pattern" -> <<"p">>
    [] name = "query" -> <<"q">>

\* tool inputs: absent, or an object with some of the fields; command may be the empty string
ToolInputs ==
  {Null}
    \cup { [k \in S |-> FieldValue(k)] : S \in SUBSET Fields }
    \cup { [k \in S |-> IF k = "command" THEN <<>> ELSE FieldValue(k)] :
             S \in {T \in SUBSET Fields : "command" \in T} }

InitExtract ==
  /\ Init
  /\ program = "hook"

\* a call getPrimaryContent(toolName, toolInput)
Extract(toolName, toolInput) ==
  /\ pc \in {"start", "extracted"}
  /\ input' = [tool_name |-> toolName, tool_input |-> toolInput]
  /\ content' = getPrimaryContent(toolName, toolInput)
  /\ pc' = "extracted"
  /\ UNCHANGED <<program, projectConfig, globalConfig, merged, rules, regexCache, result, output, compiled>>

NextExtract == \E toolName \in ExtractTools, toolInput \in ToolInputs : Extract(toolName, toolInput)

SpecExtract == InitExtract /\ [][NextExtract]_vars

(***************************************************************************)
(* toRegex and its cache on their own: calls toRegex(pattern, flags) in    *)
(* any order, and tests of the matchers it returned in between.            *)
(***************************************************************************)

\* patterns with a quantified group: (a+)+  (.+)*  (\d+)+  (\s*)+  (a*){2}
\* (-H\s+\S+\s+)*  and a group of one escaped line feed
ShapedPatterns ==
  { <<"(", "a", "+", ")", "+">>,
    <<"(", ".", "+", ")", "*">>,
    <<"(", BS, "d", "+", ")", "+">>,
    <<"(", BS, "s", "*", ")", "+">>,
    <<"(", "a", "*", ")", "{", "2", "}">>,
    <<"(", "-", "H", BS, "s", "+", BS, "S", "+", BS, "s", "+", ")", "*">>,
    <<"(", BS, NL, "+", ")", "+">> }

\* the arguments of the calls: patterns that compile, one that is unsafe, one
\* that does not compile, flags absent, empty, valid and invalid
CompileCalls ==
  { [pattern |-> <<"a">>, flags |-> None],
    [pattern |-> <<"a">>, flags |-> <<>>],
    [pattern |-> <<"a">>, flags |-> <<"y">>],
    [pattern |-> <<"a">>, flags |-> <<"g">>],
    [pattern |-> <<":", "x">>, flags |-> <<"i">>],
    [pattern |-> <<"x">>, flags |-> <<"i", ":">>],
    [pattern |-> <<"(", "a", "+", ")", "+", "$">>, flags |-> None],
    [pattern |-> <<"+">>, flags |-> None] }
    \cup { [pattern |-> p, flags |-> None] : p \in ShapedPatterns }

\* the texts the matchers are tested on
CacheTexts == { <<"a">>, <<"b">>, <<"a", "a">> }

InitCache ==
  /\ Init
  /\ program = "hook"

\* a call toRegex(pattern, flags)
Compile(pattern, flags) ==
  /\ pc \in {"start", "compiled", "tested"}
  /\ \E r \in {toRegex(regexCache, pattern, flags)} :
       /\ regexCache' = r.cache
       /\ compiled' = [pattern |-> pattern, flags |-> flags, re |-> r.re]
  /\ pc' = "compiled"
  /\ UNCHANGED <<program, input, projectConfig, globalConfig, merged, rules, content, result, output>>

\* re.test(s) on a matcher toRegex returned earlier
TestCached(key, s) ==
  /\ pc \in {"compiled", "tested"}
  /\ key \in DOMAIN regexCache
  /\ regexCache' = Test(regexCache, key, s).cache
  /\ pc' = "tested"
  /\ UNCHANGED <<program, input, projectConfig, globalConfig, merged, rules, content, result, output, compiled>>

NextCache ==
  \/ \E call \in CompileCalls : Compile(call.pattern, call.flags)
  \/ \E call \in CompileCalls, s \in CacheTexts : TestCached(CacheKey(call.pattern, call.flags), s)

SpecCache == InitCache /\ [][NextCache]_vars

(***************************************************************************)
(* parseRule on its own: one call on an empty cache, by the hook and by    *)
(* the script, for every rule text over a small alphabet and for an entry  *)
(* without rule text.                                                      *)
(***************************************************************************)
MaxRuleLen == 6     \* characters of a rule text

RuleAlphabet == {"a", "(", ")", NL}

RuleTexts == UNION { [1..n -> RuleAlphabet] : n \in 0..MaxRuleLen }

\* the entry of a rule text: a string, or an object without rule for None
EntryOf(raw) == IF raw = None THEN ObjectEntry(None, NoReason, None) ELSE StringEntry(raw)

InitParse ==
  /\ Init
  /\ program = "hook"

\* a call parseRule(entry) of the hook, and of the script, on the same entry
Parse(raw) ==
  /\ pc = "start"
  /\ \E p \in {parseRule(regexCache, EntryOf(raw))} :
       /\ regexCache' = p.cache
       /\ compiled' = [raw |-> raw, rule |-> p.rule, script |-> scriptParseRule(EntryOf(raw))]
  /\ pc' = "parsed"
  /\ UNCHANGED <<program, input, projectConfig, globalConfig, merged, rules, content, result, output>>

NextParse == \E raw \in RuleTexts \cup {None} : Parse(raw)

SpecParse == InitParse /\ [][NextParse]_vars

(***************************************************************************)
(* main of the hook on commands whose lines begin or end with a space, and *)
(* deny rules that look at the beginning and the end of the content.       *)
(***************************************************************************)
LineEntries == <<
  StringEntry(Bash \o <<"(", "^", " ", "a", ")">>),                            \* "Bash(^ a)"
  StringEntry(Bash \o <<"(", "^", "a", "$", ")">>),                            \* "Bash(^a$)"
  ObjectEntry(Rule_b, "no b", None),                                           \* { rule: "Bash(^b)", reason }
  ObjectEntry(Rule_a, NoReason, <<"y">>)                                       \* { rule: "Bash(a)", flags: "y" }
>>

\* project configurations: one or two deny entries, or two allow entries
LineConfigs ==
  { [deny |-> <<LineEntries[i]>>] : i \in 1..Len(LineEntries) }
    \cup { [deny |-> <<LineEntries[i], LineEntries[j]>>] : i, j \in 1..Len(LineEntries) }
    \cup { [allow |-> <<LineEntries[i], LineEntries[j]>>] : i, j \in 1..Len(LineEntries) }

LineContents == { <<" ", "a">>, <<"a">>, <<"b">>, <<"b", NL, " ", "a">>, <<"a", NL, "b">>, <<" ", "a", NL, "b">>,
                  <<"a", " ", NL, "b">>, <<"a", NL, "b", "a">> }

LineRequests == { [tool_name |-> Bash, tool_input |-> [command |-> c]] : c \in LineContents }

NextLines ==
  \/ \E req \in LineRequests : ReadInput(req)
  \/ \E a \in LineConfigs : LoadRules(a, Null)
  \/ Evaluate

SpecLines == InitService /\ [][NextLines]_vars

(***************************************************************************)
(* Vocabulary of the properties                                            *)
(***************************************************************************)

\* what a matcher matches: the test of the cached object taken fresh (lastIndex 0)
Fresh(re) == [re EXCEPT !.lastIndex = 0]
Matches(key, s) == RegExpTest(Fresh(regexCache[key]), s).result

ReqContent == getPrimaryContent(input.tool_name, input.tool_input)
ReqLines == LinesOf(ReqContent)

\* the parsed rule r matches the text s for the request's tool
RuleMatchesText(r, s) ==
  /\ Matches(r.toolRe, input.tool_name)
  /\ s # None
  /\ Matches(r.contentRe, s)

RuleMatchesALine(r) ==
  ReqLines.present /\ \E k \in 1..Len(ReqLines.list) : RuleMatchesText(r, ReqLines.list[k])

\* the whole content or any line
RuleMatchesRequest(r) == RuleMatchesText(r, ReqContent) \/ RuleMatchesALine(r)

DenyMatches == \E k \in 1..Len(rules.deny) : RuleMatchesRequest(rules.deny[k])
AskMatches == \E k \in 1..Len(rules.ask) : RuleMatchesRequest(rules.ask[k])
AllowMatches == \E k \in 1..Len(rules.allow) : RuleMatchesRequest(rules.allow[k])

HookEvaluated == program = "hook" /\ pc = "evaluated"
Finished == pc \in {"done", "evaluated"} /\ merged # Null

Decision == IF result = Null THEN "no-match" ELSE result.decision

\* the raw entries of the merged configuration
MergedEntries == OrEmpty(merged, "deny") \o OrEmpty(merged, "ask") \o OrEmpty(merged, "allow")
EntrySet == {MergedEntries[k] : k \in 1..Len(MergedEntries)}

\* the tool names an entry's tool pattern lists (the pattern split at "|")
RECURSIVE NamesOf(_, _)
NamesOf(t, cur) ==
  IF t = <<>> THEN {cur}
  ELSE IF Head(t) = "|" THEN {cur} \cup NamesOf(Tail(t), <<>>)
  ELSE NamesOf(Tail(t), Append(cur, Head(t)))

ToolsNamed(entry) == IF RuleShape(entry.rule) = Null THEN {} ELSE NamesOf(RuleShape(entry.rule).tool, <<>>)

IsSubstring(n, t) == \E i \in 0..(Len(t) - Len(n)) : SubSeq(t, i + 1, i + Len(n)) = n

Fold(t) == [k \in 1..Len(t) |-> Canonicalize(t[k])]

(***************************************************************************)
(* C1  Precedence.  When the hook has evaluated a request: if some deny    *)
(* rule matches it (tool, and the whole content or any line) the decision  *)
(* is deny whatever ask or allow rules match too; if no deny rule but some *)
(* ask rule matches it, the decision is ask whatever allow rules match.    *)
(***************************************************************************)
C1_Precedence ==
  HookEvaluated =>
    /\ (DenyMatches => Decision = "deny")
    /\ (~DenyMatches /\ AskMatches => Decision = "ask")

C1_Witness == HookEvaluated /\ DenyMatches /\ AllowMatches /\ Decision = "deny"

(***************************************************************************)
(* C2  Multiline denial propagation.  For content with a newline, if any   *)
(* trimmed non-empty line is matched by a deny rule whose tool matcher     *)
(* matches the tool name, the decision is deny, also when the rule does    *)
(* not match the whole content, and for a line at any position.            *)
(***************************************************************************)
C2_MultilineDeny ==
  HookEvaluated /\ (\E k \in 1..Len(rules.deny) : RuleMatchesALine(rules.deny[k])) => Decision = "deny"

\* a deny rule that matches the second line only, not the whole content
C2_Witness ==
  /\ HookEvaluated
  /\ Decision = "deny"
  /\ ReqLines.present
  /\ \A k \in 1..Len(rules.deny) :
       /\ ~RuleMatchesText(rules.deny[k], ReqContent)
       /\ ~RuleMatchesText(rules.deny[k], ReqLines.list[1])
  /\ \E k \in 1..Len(rules.deny) : RuleMatchesText(rules.deny[k], ReqLines.list[2])

(***************************************************************************)
(* C3  Multiline allow completeness.  For content with a newline that no   *)
(* deny or ask rule matches, the decision is allow only if every trimmed   *)
(* non-empty line is matched by some allow rule; a line no allow rule      *)
(* matches makes the result no-match.                                      *)
(***************************************************************************)
EveryLineCovered ==
  \A k \in 1..Len(ReqLines.list) :
    \E j \in 1..Len(rules.allow) : RuleMatchesText(rules.allow[j], ReqLines.list[k])

C3_MultilineAllow ==
  HookEvaluated /\ ReqLines.present /\ ~DenyMatches /\ ~AskMatches =>
    /\ (Decision = "allow" => EveryLineCovered)
    /\ (~EveryLineCovered => Decision = "no-match")

(***************************************************************************)
(* C4  Anchoring.  A rule matches a tool name only as a whole string: a    *)
(* request whose tool name is a strict superstring of the names the rules  *)
(* list, and is itself listed by none, is matched by no rule of any        *)
(* category.                                                               *)
(***************************************************************************)
OnlySuperstringOfNamed ==
  /\ \A e \in EntrySet : input.tool_name \notin ToolsNamed(e)
  /\ \E e \in EntrySet : \E n \in ToolsNamed(e) : IsSubstring(n, input.tool_name) /\ n # input.tool_name

C4_Anchoring == pc = "evaluated" /\ OnlySuperstringOfNamed => Decision = "no-match"

(***************************************************************************)
(* C5  Unsafe-pattern rejection.  A rule whose content pattern is (a+)+$   *)
(* is dropped when parsed; with a configuration of such rules only, the    *)
(* hook ends with no-match for every request, also one the pattern         *)
(* matches textually.                                                      *)
(***************************************************************************)
UnsafeEntry == Entries[4]

C5_UnsafeRejected ==
  program = "hook" /\ Finished /\ EntrySet = {UnsafeEntry} =>
    /\ rules = NoRules
    /\ Decision = "no-match"
    /\ output = EmptyObject

C5_Witness ==
  /\ program = "hook" /\ Finished /\ EntrySet = {UnsafeEntry}
  /\ input.tool_name = Bash
  /\ ReqContent = <<"a">>
  /\ output = EmptyObject

(***************************************************************************)
(* C6  A rule whose tool or content pattern does not compile matches       *)
(* nothing for every caller: a configuration of such rules only gives      *)
(* no-match for every request.                                             *)
(***************************************************************************)
UncompilableEntries == {Entries[5], Entries[6]}

C6_UncompilableMatchesNothing ==
  Finished /\ EntrySet # {} /\ EntrySet \subseteq UncompilableEntries =>
    Decision = "no-match" /\ output = EmptyObject

(***************************************************************************)
(* C7  Determinism.  Evaluating the same request twice in a row against    *)
(* the same prepared rule set gives the same decision and reason.          *)
(***************************************************************************)
C7_Determinism ==
  [][pc = "evaluated" /\ pc' = "evaluated" /\ input' = input => result' = result]_vars

(***************************************************************************)
(* C8  Matcher statelessness.  For every content matcher of the prepared   *)
(* rules, testing a string gives the result the fresh matcher gives,       *)
(* whatever was tested before.                                             *)
(***************************************************************************)
TestStrings == Contents \cup {<<"b", "a">>}

ContentMatchers ==
  {rules.deny[k].contentRe : k \in 1..Len(rules.deny)}
    \cup {rules.ask[k].contentRe : k \in 1..Len(rules.ask)}
    \cup {rules.allow[k].contentRe : k \in 1..Len(rules.allow)}

C8_Stateless ==
  program = "hook" =>
    \A key \in ContentMatchers : \A s \in TestStrings :
      RegExpTest(regexCache[key], s).result = Matches(key, s)

(***************************************************************************)
(* C9  g-flag stripping.  Parsing an entry whose flags contain g gives the *)
(* rule that parsing it with every g removed gives; no matcher of the hook *)
(* carries the global flag; and a single-line request that an allow rule   *)
(* matches, and no deny or ask rule, is allowed.                           *)
(***************************************************************************)
WithoutG(entry) == [entry EXCEPT !.flags = StripG(entry.flags)]

GEntries == {Entries[k] : k \in {j \in 1..Len(Entries) : Entries[j].flags # None /\ Has(Entries[j].flags, "g")}}

OnlyCaseVariantOfNamed ==
  /\ \A e \in EntrySet : input.tool_name \notin ToolsNamed(e)
  /\ \E e \in EntrySet : \E n \in ToolsNamed(e) : Fold(n) = Fold(input.tool_name)

C10_FlagIsolation == pc = "evaluated" /\ OnlyCaseVariantOfNamed => Decision = "no-match"

(***************************************************************************)
(* C11  Ask pass.  When the hook has evaluated a request, the decision is  *)
(* ask exactly when no deny rule matches it and some ask rule matches it   *)
(* (tool, and the whole content or any trimmed non-empty line); and a deny *)
(* rule that matches one line wins over an ask rule that matches another   *)
(* line, whichever line comes first.                                       *)
(***************************************************************************)
DenyLineAskOtherLine ==
  /\ ReqLines.present
  /\ \E i, j \in 1..Len(ReqLines.list) :
       /\ i # j
       /\ \E k \in 1..Len(rules.deny) : RuleMatchesText(rules.deny[k], ReqLines.list[i])
       /\ \E k \in 1..Len(rules.ask) : RuleMatchesText(rules.ask[k], ReqLines.list[j])

C11_AskPass ==
  HookEvaluated =>
    /\ (Decision = "ask" <=> ~DenyMatches /\ AskMatches)
    /\ (DenyLineAskOtherLine => Decision = "deny")

\* an ask rule that matches a line of multiline content, with an allow rule that matches too
C11_Witness ==
  /\ HookEvaluated
  /\ Decision = "ask"
  /\ ReqLines.present
  /\ \E k \in 1..Len(rules.ask) : RuleMatchesALine(rules.ask[k]) /\ ~RuleMatchesText(rules.ask[k], ReqContent)

(***************************************************************************)
(* C12  Fail-open, no throw.  For every configuration of JSON entries (a   *)
(* string, a number, an object whose rule or flags is a number), the hook  *)
(* prepares for each category the rules of exactly those entries that      *)
(* parse on their own, in their original order: an entry that fails to     *)
(* parse is dropped alone and the others are kept and evaluated.           *)
(***************************************************************************)
ParsesAlone(entry) == parseRule(EmptyCache, entry).rule \notin {Null, Threw}

RECURSIVE KeptRules(_)
KeptRules(entries) ==
  IF entries = <<>> THEN <<>>
  ELSE (IF ParsesAlone(Head(entries)) THEN <<parseRule(EmptyCache, Head(entries)).rule>> ELSE <<>>)
         \o KeptRules(Tail(entries))

HookPrepared == program = "hook" /\ pc \in {"loaded", "evaluated", "done"} /\ merged # Null

C12_FailOpen ==
  HookPrepared => \A c \in Categories : rules[c] = KeptRules(OrEmpty(merged, c))

(***************************************************************************)
(* C13  Non-array category.  When the project configuration gives deny a   *)
(* value that is not an array, the hook prepares deny as empty, prepares   *)
(* ask and allow from the entries of both scopes as if deny were absent,   *)
(* and decides the request by them: a valid allow rule next to the         *)
(* non-array deny still allows.                                            *)
(***************************************************************************)
MalformedDeny == projectConfig # Null /\ "deny" \in DOMAIN projectConfig /\ ~IsArray(projectConfig.deny)

\* the rule set of both scopes without the deny category
WithoutDeny ==
  prepareRules(EmptyCache,
    [ask |-> OrEmpty(projectConfig, "ask") \o OrEmpty(globalConfig, "ask"),
     allow |-> OrEmpty(projectConfig, "allow") \o OrEmpty(globalConfig, "allow")])

C13_NonArrayCategory ==
  program = "hook" /\ pc \in {"done", "evaluated"} /\ MalformedDeny =>
    /\ rules = WithoutDeny.rules
    /\ output = Render(evaluate(WithoutDeny.cache, WithoutDeny.rules, input.tool_name, input.tool_input).result)

(***************************************************************************)
(* C14  Merge.  For configurations whose categories are arrays: with both  *)
(* scopes absent the merged configuration is the empty rule set; with one  *)
(* scope present it is that configuration as it is; with both present each *)
(* of its three categories is the project's entries followed by the        *)
(* global's, in their order, a missing category counting as empty.         *)
(***************************************************************************)
WellFormed(config) == config = Null \/ \A k \in DOMAIN config : IsArray(config[k])

\* the entries a configuration gives a category, none when the category is missing
EntriesOf(config, c) == IF c \in DOMAIN config THEN config[c] ELSE <<>>

Merged == merged # Null /\ WellFormed(projectConfig) /\ WellFormed(globalConfig)

C14_Merge ==
  Merged =>
    /\ (projectConfig = Null /\ globalConfig = Null => merged = [deny |-> <<>>, ask |-> <<>>, allow |-> <<>>])
    /\ (projectConfig = Null /\ globalConfig # Null => merged = globalConfig)
    /\ (projectConfig # Null /\ globalConfig = Null => merged = projectConfig)
    /\ (projectConfig # Null /\ globalConfig # Null =>
          /\ DOMAIN merged = Categories
          /\ \A c \in Categories : merged[c] = EntriesOf(projectConfig, c) \o EntriesOf(globalConfig, c))

\* both scopes give the same category an entry, and the two entries differ
C14_Witness ==
  /\ Merged
  /\ projectConfig # Null /\ globalConfig # Null
  /\ \E c \in Categories :
       /\ Len(EntriesOf(projectConfig, c)) = 1 /\ Len(EntriesOf(globalConfig, c)) = 1
       /\ EntriesOf(projectConfig, c) # EntriesOf(globalConfig, c)
       /\ merged[c] = EntriesOf(projectConfig, c) \o EntriesOf(globalConfig, c)

(***************************************************************************)
(* C15  First match wins.  When the hook decides deny or ask, the reason   *)
(* is that of the first rule of the category that matches the request,     *)
(* the rules standing in the order of their entries with the project's     *)
(* before the global's, or the default string of the category when that    *)
(* rule has no reason; rules that match later change nothing; and an allow *)
(* decision carries no reason.                                             *)
(***************************************************************************)
\* the rules of a category in scope order: the project's entries, then the global's
ScopeRules(c) == KeptRules(EntriesOf(projectConfig, c) \o EntriesOf(globalConfig, c))

FirstMatching(rs) ==
  CHOOSE k \in 1..Len(rs) : RuleMatchesRequest(rs[k]) /\ \A j \in 1..(k - 1) : ~RuleMatchesRequest(rs[j])

ReasonOfFirst(rs, fallback) ==
  IF rs[FirstMatching(rs)].reason = NoReason THEN fallback ELSE rs[FirstMatching(rs)].reason

\* the object written for a decision and its reason
Written(decision, reason) ==
  IF reason = NoReason
  THEN [hookSpecificOutput |-> [permissionDecision |-> decision]]
  ELSE [hookSpecificOutput |-> [permissionDecision |-> decision, permissionDecisionReason |-> reason]]

C15_FirstMatchWins ==
  HookEvaluated /\ WellFormed(projectConfig) /\ WellFormed(globalConfig) =>
    /\ \A c \in Categories : rules[c] = ScopeRules(c)
    /\ (Decision = "deny" =>
          /\ DenyMatches
          /\ result.reason = ReasonOfFirst(ScopeRules("deny"), DenyDefault)
          /\ output = Written("deny", result.reason))
    /\ (Decision = "ask" =>
          /\ AskMatches
          /\ result.reason = ReasonOfFirst(ScopeRules("ask"), AskDefault)
          /\ output = Written("ask", result.reason))
    /\ (Decision = "allow" => result.reason = NoReason /\ output = Written("allow", NoReason))

\* two deny rules with different reasons both match, the project's reason is given
C15_Witness ==
  /\ HookEvaluated
  /\ Decision = "deny"
  /\ Len(rules.deny) = 2
  /\ RuleMatchesRequest(rules.deny[1]) /\ RuleMatchesRequest(rules.deny[2])
  /\ rules.deny[1].reason # NoReason
  /\ rules.deny[2].reason # rules.deny[1].reason
  /\ result.reason = rules.deny[1].reason

(***************************************************************************)
(* C16  Content extraction for the named tools.  getPrimaryContent gives   *)
(* the command of Bash, the file_path of Edit, Write and Read, the url of  *)
(* WebFetch, the pattern of Grep and Glob and the query of WebSearch:      *)
(* that field only, undefined when it is missing whatever other fields     *)
(* the input has; and undefined for every tool when the input is absent.   *)
(***************************************************************************)
NamedTools == {Bash, Edit, Write, Read, WebFetch, Grep, Glob, WebSearch}

\* the field of the table for a named tool
TableField(toolName) ==
  CASE toolName = Bash -> "command"
    [] toolName \in {Edit, Write, Read} -> "file_path"
    [] toolName = WebFetch -> "url"
    [] toolName \in {Grep, Glob} -> "pattern"
    [] toolName = WebSearch -> "query"

Extracted == pc = "extracted"

C16_NamedToolContent ==
  Extracted =>
    /\ (input.tool_input = Null => content = None)
    /\ (input.tool_input # Null /\ input.tool_name \in NamedTools =>
          content = IF TableField(input.tool_name) \in DOMAIN input.tool_input
                    THEN input.tool_input[TableField(input.tool_name)]
                    ELSE None)

\* Edit without file_path but with a command: undefined
C16_Witness ==
  /\ Extracted
  /\ input.tool_name = Edit
  /\ input.tool_input # Null
  /\ "command" \in DOMAIN input.tool_input
  /\ "file_path" \notin DOMAIN input.tool_input
  /\ content = None

(***************************************************************************)
(* C17  Content extraction for any other tool.  The content is the first   *)
(* field present among command, file_path, url, pattern, in that order; a  *)
(* command that is present is the content whatever string it is, the       *)
(* empty string included, and whatever the later fields hold.              *)
(***************************************************************************)
FallbackOrder == <<"command", "file_path", "url", "pattern">>

FirstPresent(toolInput) ==
  IF \E k \in 1..Len(FallbackOrder) : FallbackOrder[k] \in DOMAIN toolInput
  THEN toolInput[FallbackOrder[CHOOSE k \in 1..Len(FallbackOrder) :
                   /\ FallbackOrder[k] \in DOMAIN toolInput
                   /\ \A j \in 1..(k - 1) : FallbackOrder[j] \notin DOMAIN toolInput]]
  ELSE None

C17_OtherToolContent ==
  Extracted /\ input.tool_name \notin NamedTools /\ input.tool_input # Null =>
    content = FirstPresent(input.tool_input)

(***************************************************************************)
(* C18  Contentless requests never match.  When the content extracted for  *)
(* the request is undefined (no tool input, or the field of the tool is    *)
(* missing), no rule of any category matches and the result is no-match,   *)
(* for every rule set, also one whose content pattern is .* for the tool.  *)
(***************************************************************************)
Contentless == pc = "evaluated" /\ ReqContent = None

C18_ContentlessNoMatch ==
  Contentless => Decision = "no-match" /\ output = EmptyObject /\ ~DenyMatches /\ ~AskMatches /\ ~AllowMatches

\* the rule Bash(.*) and a Bash request whose input has a file_path but no command
C18_Witness ==
  /\ HookEvaluated
  /\ ReqContent = None
  /\ input.tool_input # Null
  /\ \E c \in Categories : \E k \in 1..Len(rules[c]) :
       /\ Matches(rules[c][k].toolRe, input.tool_name)
       /\ regexCache[rules[c][k].contentRe].source = <<".", "*">>
  /\ Decision = "no-match"

(***************************************************************************)
(* C19  The cache is pure memoization.  After any sequence of earlier      *)
(* calls, toRegex(pattern, flags) returns null exactly when it returns     *)
(* null on an empty cache, and otherwise a matcher whose source is that    *)
(* pattern and whose flags are those flags.                                *)
(***************************************************************************)
JustCompiled == pc = "compiled"

OnEmptyCache == toRegex(EmptyCache, compiled.pattern, compiled.flags)

C19_PureMemoization ==
  JustCompiled =>
    /\ compiled.re = None <=> OnEmptyCache.re = None
    /\ compiled.re # None =>
         /\ regexCache[compiled.re].source = compiled.pattern
         /\ regexCache[compiled.re].flags = OrElse(compiled.flags, <<>>)

(***************************************************************************)
(* C20  Cache population is idempotent.  A call of toRegex removes no      *)
(* entry and leaves every stored matcher as it is, its lastIndex too; a    *)
(* call whose key is stored returns the stored matcher without a safety    *)
(* check; a call that returns null stores nothing; and every stored        *)
(* matcher is one of a pattern that passes isSafeRegex and compiles,       *)
(* returned under the key of its call.                                     *)
(***************************************************************************)
StoredSafely(cache) ==
  \A k \in DOMAIN cache :
    /\ isSafeRegex(cache[k].source)
    /\ Compiles(cache[k].source, cache[k].flags)
    /\ k = CacheKey(cache[k].source, cache[k].flags)

C20_Step ==
  /\ \A k \in DOMAIN regexCache : k \in DOMAIN regexCache'
  /\ StoredSafely(regexCache')
  /\ pc' = "compiled" =>
       /\ \A k \in DOMAIN regexCache : regexCache'[k] = regexCache[k]
       /\ CacheKey(compiled'.pattern, compiled'.flags) \in DOMAIN regexCache =>
            compiled'.re = CacheKey(compiled'.pattern, compiled'.flags)
       /\ compiled'.re = None => regexCache' = regexCache
       /\ compiled'.re # None =>
            /\ compiled'.re = CacheKey(compiled'.pattern, compiled'.flags)
            /\ compiled'.re \in DOMAIN regexCache'

C20_IdempotentPopulation == [][C20_Step]_vars

\* a call returned the matcher stored by an earlier call, used in between
C20_Witness ==
  /\ pc = "compiled"
  /\ compiled.re # None
  /\ regexCache[compiled.re].lastIndex # 0

(***************************************************************************)
(* C21  Safety heuristic classification.  toRegex returns null for every   *)
(* pattern that holds "(", one atom (a dot, an escaped character, or one   *)
(* character other than ")" and backslash), "+" or "*", ")" and then "+",  *)
(* "*" or "{"; and it returns a matcher for (-H\s+\S+\s+)*, whose group    *)
(* holds several tokens.                                                   *)
(***************************************************************************)
NestedQuantifierAt(p, i) ==
  /\ p[i] = "("
  /\ \E n \in {1, 2} :
       /\ i + n + 3 <= Len(p)
       /\ IF n = 1 THEN p[i + 1] \notin {")", BS} ELSE p[i + 1] = BS
       /\ p[i + n + 1] \in {"+", "*"}
       /\ p[i + n + 2] = ")"
       /\ p[i + n + 3] \in {"+", "*", "{"}

NestedQuantifier(p) == \E i \in 1..Len(p) : NestedQuantifierAt(p, i)

MultiToken == <<"(", "-", "H", BS, "s", "+", BS, "S", "+", BS, "s", "+", ")", "*">>

C21_SafetyHeuristic ==
  JustCompiled =>
    /\ NestedQuantifier(compiled.pattern) => compiled.re = None
    /\ compiled.pattern = MultiToken => compiled.re # None

(***************************************************************************)
(* C22  Absent configuration is not an error.  When both scopes are absent *)
(* (no file, or no regexPermissions key), or no rule is left in any        *)
(* category, main ends with the empty object for every request: nothing    *)
(* is evaluated and nothing throws.                                        *)
(***************************************************************************)
AfterLoad == pc \in {"loaded", "evaluated", "done", "crashed"} /\ input # Null /\ Truthy(input.tool_name)

NoConfiguration == projectConfig = Null /\ globalConfig = Null

\* the hook prepared no rule; the script, which prepares nothing, merged no entry
NoRuleLeft ==
  IF program = "hook" THEN rules = NoRules
  ELSE merged # Null /\ \A c \in Categories : scriptLength(merged, c) = 0

C22_AbsentConfiguration ==
  AfterLoad /\ (NoConfiguration \/ NoRuleLeft) =>
    pc = "done" /\ output = EmptyObject /\ result = Null

\* a Bash request with a command and no configuration in either scope
C22_Witness ==
  /\ AfterLoad
  /\ NoConfiguration
  /\ merged = EmptyConfig
  /\ Field(input.tool_input, "command") = <<"a">>
  /\ output = EmptyObject

(***************************************************************************)
(* C23  Output contract.  A matched decision is written as an object whose *)
(* hookSpecificOutput holds permissionDecision, one of deny, ask, allow,   *)
(* and permissionDecisionReason exactly when the decision has a reason; a  *)
(* no-match, a request without tool_name, unreadable input and an internal *)
(* failure are written as the empty object.                                *)
(***************************************************************************)
Ended == pc \in {"done", "evaluated", "crashed"}

C23_OutputContract ==
  Ended =>
    IF pc = "evaluated" /\ result # Null
    THEN /\ result.decision \in {"deny", "ask", "allow"}
         /\ output = Written(result.decision, IF result.reason = "" THEN NoReason ELSE result.reason)
    ELSE output = EmptyObject

(***************************************************************************)
(* C24  Non-vacuous allow.  evaluate returns allow only if some allow rule *)
(* matches the tool name and the content, or a line of it; never with an   *)
(* empty allow category or with no allow rule for the tool, whatever the   *)
(* content, also content of newlines and whitespace only.                  *)
(***************************************************************************)
C24_NonVacuousAllow ==
  HookEvaluated /\ Decision = "allow" =>
    /\ Len(rules.allow) > 0
    /\ \E k \in 1..Len(rules.allow) : Matches(rules.allow[k].toolRe, input.tool_name)
    /\ AllowMatches

(***************************************************************************)
(* C25  Cross-scope isolation of malformed categories.  After the merge    *)
(* and the preparation, every rule that parses in a category of one scope  *)
(* is in the prepared category, whatever the other scope gives that        *)
(* category, a string or a number too; and the merge does not throw.       *)
(***************************************************************************)
Scopes == {projectConfig, globalConfig} \ {Null}

HookLoaded == program = "hook" /\ pc \in {"loaded", "evaluated", "done"} /\ Scopes # {}

\* every rule of the sequence kept is a rule of the sequence prepared
AllIn(kept, prepared) == \A k \in 1..Len(kept) : \E j \in 1..Len(prepared) : prepared[j] = kept[k]

C25_ScopeIsolation ==
  HookLoaded =>
    /\ merged # Null
    /\ \A c \in Categories : \A scope \in Scopes :
         IsArray(OrEmpty(scope, c)) => AllIn(KeptRules(OrEmpty(scope, c)), rules[c])

(***************************************************************************)
(* C26  Rule shape split.  parseRule splits the rule text at its first "(" *)
(* and its final character ")": the tool pattern is the non-empty text     *)
(* before the first "(", the content pattern the non-empty text between    *)
(* that "(" and the final ")", parentheses and newlines included.  It      *)
(* returns null when the text is absent or empty, has no "(", has an empty *)
(* tool or content part, or does not end with ")".                         *)
(***************************************************************************)
Parsed == pc = "parsed"

Opens(raw) == {i \in 1..Len(raw) : raw[i] = "("}
FirstOpen(raw) == CHOOSE i \in Opens(raw) : \A j \in Opens(raw) : i <= j

HasShape(raw) ==
  /\ raw # None
  /\ Opens(raw) # {}
  /\ FirstOpen(raw) > 1
  /\ raw[Len(raw)] = ")"
  /\ Len(raw) - 1 > FirstOpen(raw)

ToolPart(raw) == SubSeq(raw, 1, FirstOpen(raw) - 1)
ContentPart(raw) == SubSeq(raw, FirstOpen(raw) + 1, Len(raw) - 1)

C26_RuleShape ==
  Parsed =>
    IF HasShape(compiled.raw)
    THEN /\ compiled.script # Null
         /\ compiled.script.tool = ToolPart(compiled.raw)
         /\ compiled.script.pattern = ContentPart(compiled.raw)
         /\ compiled.rule # Null =>
              /\ regexCache[compiled.rule.toolRe].source = Anchored(ToolPart(compiled.raw))
              /\ regexCache[compiled.rule.contentRe].source = ContentPart(compiled.raw)
    ELSE compiled.rule = Null /\ compiled.script = Null

\* a rule whose content holds parentheses and a newline, parsed by the hook
C26_Witness ==
  /\ Parsed
  /\ compiled.raw = <<"a", "(", "(", NL, ")", ")">>
  /\ compiled.rule # Null
  /\ regexCache[compiled.rule.contentRe].source = <<"(", NL, ")">>

(***************************************************************************)
(* C27  Deny is monotone under added lines.  If evaluate gives deny for a  *)
(* single-line content, it gives deny for every multiline content one of   *)
(* whose lines, as split at the newlines, is exactly that content.         *)
(***************************************************************************)
\* the cache with every matcher as toRegex returned it
FreshCache == [k \in DOMAIN regexCache |-> Fresh(regexCache[k])]

\* the decision of evaluate for the request's tool and the command c alone
DecisionAlone(c) ==
  Bind(evaluate(FreshCache, rules, input.tool_name, [command |-> c]).result, LAMBDA r :
    IF r = Null THEN "no-match" ELSE r.decision)

RawLines == Split(ReqContent, <<>>)

C27_DenyMonotone ==
  HookEvaluated /\ ReqLines.present =>
    \A k \in 1..Len(RawLines) : DecisionAlone(RawLines[k]) = "deny" => Decision = "deny"

(***************************************************************************)
(* C28  Frame.  An evaluation leaves the prepared rule set as it is (no    *)
(* rule added, removed, reordered or given another reason) and leaves the  *)
(* merged and the loaded configurations as they are; of the shared state   *)
(* it changes the pattern cache only, where every matcher stays the        *)
(* matcher of its pattern and flags.                                       *)
(***************************************************************************)
Evaluation == pc \in {"loaded", "evaluated"} /\ pc' = "evaluated"

SameMatchers ==
  /\ DOMAIN regexCache' = DOMAIN regexCache
  /\ \A k \in DOMAIN regexCache :
       regexCache'[k].source = regexCache[k].source /\ regexCache'[k].flags = regexCache[k].flags

C28_Step ==
  Evaluation =>
    /\ rules' = rules
    /\ merged' = merged
    /\ projectConfig' = projectConfig
    /\ globalConfig' = globalConfig
    /\ SameMatchers

Reversed(seq) == [k \in 1..Len(seq) |-> seq[Len(seq) + 1 - k]]

ReorderedRules == [deny |-> Reversed(rules.deny), ask |-> Reversed(rules.ask), allow |-> Reversed(rules.allow)]

KindOf(r) == IF r = Null THEN "no-match" ELSE r.decision

C29_OrderInsensitive ==
  HookEvaluated =>
    KindOf(evaluate(FreshCache, ReorderedRules, input.tool_name, input.tool_input).result) = Decision

====
